---- MODULE Spec2Model ----
(* Model of pkg/master/master.go: construction of the Master (New,          *)
(* makeMinionRegistry, Master.init), the background pod-cache refresh task  *)
(* started by init, and the two versioned API exporters.                    *)
EXTENDS Integers, Sequences, FiniteSets, TLC

(* ---------------------------------------------------------------------- *)
(* Bounds of the model                                                      *)
(* ---------------------------------------------------------------------- *)
MaxMinions == 2
MaxCalls == 2
MaxMutations == 1
MaxPasses == 2
MaxPassTicks == 2

(* Inputs the configurations are drawn from *)
MinionIDs == {"n1", "n2"}
ResourceValues == {"res1", "res2"}
TTLValues == {0 - 1, 0, 30}
RegexpValues == {"", "re"}
Nil == "nil"
CloudValues == {Nil, "cloud"}
MutKeys == {"pods", "extra"}
OtherHandler == "caller.handler"

RECURSIVE SeqsUpTo(_, _)
SeqsUpTo(S, n) ==
  IF n = 0 THEN {<<>>}
  ELSE LET shorter == SeqsUpTo(S, n - 1)
       IN shorter \cup {Append(s, x) : s \in {t \in shorter : Len(t) = n - 1}, x \in S}

(* type Config struct: the fields makeMinionRegistry and New read *)
Config ==
  [Cloud : CloudValues,
   HealthCheckMinions : BOOLEAN,
   Minions : SeqsUpTo(MinionIDs, MaxMinions),
   MinionCacheTTL : TTLValues,
   MinionRegexp : RegexpValues,
   NodeResources : ResourceValues]

(* ---------------------------------------------------------------------- *)
(* minion.Registry values: a chain of layers, innermost first.              *)
(* The nil interface value is the empty chain.                              *)
(* ---------------------------------------------------------------------- *)
NilRegistry == <<>>
Layer(kind, ttl) == [kind |-> kind, ttl |-> ttl]

(* minion.NewCloudRegistry(cloud, regexp, resources) *)
NewCloudRegistry(cloud, regexp, fails) ==
  IF fails THEN [reg |-> NilRegistry, err |-> TRUE]
  ELSE [reg |-> <<Layer("CloudDiscovered", 0)>>, err |-> FALSE]

(* etcd.NewRegistry(c.EtcdHelper, nil) used as the minion registry *)
NewEtcdMinionRegistry == <<Layer("Static", 0)>>

(* Registry.CreateMinion(ctx, &api.Minion{ID, NodeResources}) on the etcd  *)
(* registry: store is the set of minion entries of the storage backend.    *)
CreateMinion(store, id, res, fails) ==
  IF fails THEN [store |-> store, err |-> TRUE]
  ELSE [store |-> {e \in store : e.ID # id} \cup {[ID |-> id, NodeResources |-> res]},
        err |-> FALSE]

(* minion.NewHealthyRegistry(delegate, client) *)
NewHealthyRegistry(delegate) == Append(delegate, Layer("HealthFiltered", 0))

(* minion.NewCachingRegistry(delegate, ttl) *)
NewCachingRegistry(delegate, ttl, fails) ==
  IF fails THEN [reg |-> NilRegistry, err |-> TRUE]
  ELSE [reg |-> Append(delegate, Layer("Cached", ttl)), err |-> FALSE]

(* ---------------------------------------------------------------------- *)
(* makeMinionRegistry, step by step                                         *)
(* ---------------------------------------------------------------------- *)

(* lines 109-115: the cloud attempt; the error is only logged *)
CloudStep(cfg, cloudFails) ==
  IF cfg.Cloud # Nil /\ Len(cfg.MinionRegexp) > 0
  THEN LET r == NewCloudRegistry(cfg.Cloud, cfg.MinionRegexp, cloudFails)
       IN [reg |-> r.reg, called |-> {"NewCloudRegistry"},
           glog |-> IF r.err THEN {"cloud"} ELSE {}]
  ELSE [reg |-> NilRegistry, called |-> {}, glog |-> {}]

(* lines 118-123: the loop over c.Minions; the value CreateMinion returns  *)
(* is dropped. dropped collects the loop indexes whose call returned an    *)
(* error.                                                                   *)
RECURSIVE CreateMinions(_, _, _, _, _)
CreateMinions(cfg, store, dropped, i, failSet) ==
  IF i > Len(cfg.Minions) THEN [store |-> store, dropped |-> dropped]
  ELSE LET r == CreateMinion(store, cfg.Minions[i], cfg.NodeResources, i \in failSet)
       IN CreateMinions(cfg, r.store,
                        IF r.err THEN dropped \cup {i} ELSE dropped,
                        i + 1, failSet)

(* lines 116-124: the static registry, built when no registry exists yet *)
StaticStep(cfg, reg, store, failSet) ==
  IF reg = NilRegistry
  THEN LET r == CreateMinions(cfg, store, {}, 1, failSet)
       IN [reg |-> NewEtcdMinionRegistry, store |-> r.store, dropped |-> r.dropped,
           called |-> {"etcd.NewRegistry"}]
  ELSE [reg |-> reg, store |-> store, dropped |-> {}, called |-> {}]

(* lines 125-127 *)
HealthStepStaticOnly(cfg, reg) ==
  IF cfg.HealthCheckMinions /\ reg[1].kind = "Static"
  THEN [reg |-> NewHealthyRegistry(reg), called |-> {"NewHealthyRegistry"}]
  ELSE [reg |-> reg, called |-> {}]

HealthStep(cfg, reg) ==
  IF cfg.HealthCheckMinions
  THEN [reg |-> NewHealthyRegistry(reg), called |-> {"NewHealthyRegistry"}]
  ELSE [reg |-> reg, called |-> {}]

(* lines 128-135 *)
CacheStepKeepsFailed(cfg, reg, cacheFails) ==
  IF cfg.MinionCacheTTL > 0
  THEN LET r == NewCachingRegistry(reg, cfg.MinionCacheTTL, cacheFails)
       IN [reg |-> r.reg, called |-> {"NewCachingRegistry"},
           glog |-> IF r.err THEN {"cache"} ELSE {}]
  ELSE [reg |-> reg, called |-> {}, glog |-> {}]

CacheStep(cfg, reg, cacheFails) ==
  IF cfg.MinionCacheTTL > 0
  THEN LET r == NewCachingRegistry(reg, cfg.MinionCacheTTL, cacheFails)
       IN [reg |-> IF r.err THEN reg ELSE r.reg,
           called |-> {"NewCachingRegistry"},
           glog |-> IF r.err THEN {"cache"} ELSE {}]
  ELSE [reg |-> reg, called |-> {}, glog |-> {}]

(* lines 125-136: the two decoration steps in the order of the code *)
DecorateCacheFirst(cfg, reg, cacheFails) ==
  LET k == CacheStep(cfg, reg, cacheFails)
      h == HealthStep(cfg, k.reg)
  IN [reg |-> h.reg, called |-> h.called \cup k.called, glog |-> k.glog]

Decorate(cfg, reg, cacheFails) ==
  LET h == HealthStep(cfg, reg)
      k == CacheStep(cfg, h.reg, cacheFails)
  IN [reg |-> k.reg, called |-> h.called \cup k.called, glog |-> k.glog]

(* lines 107-137 *)
makeMinionRegistry(cfg, store, cloudFails, failSet, cacheFails) ==
  LET cl == CloudStep(cfg, cloudFails)
      st == StaticStep(cfg, cl.reg, store, failSet)
      de == Decorate(cfg, st.reg, cacheFails)
  IN [reg |-> de.reg,
      store |-> st.store,
      dropped |-> st.dropped,
      called |-> cl.called \cup st.called \cup de.called,
      glog |-> cl.glog \cup de.glog]

(* ---------------------------------------------------------------------- *)
(* Master.storage and the maps handed to callers live on a heap of map     *)
(* objects; a map value is a function from keys to handlers.               *)
(* ---------------------------------------------------------------------- *)
NoRef == 0

(* lines 143-159: the map literal assigned to m.storage *)
StorageLiteral ==
  [k \in {"pods", "replicationControllers", "services", "endpoints",
          "minions", "events", "bindings"} |->
     CASE k = "pods" -> "pod.REST"
       [] k = "replicationControllers" -> "controller.REST"
       [] k = "services" -> "service.REST"
       [] k = "endpoints" -> "endpoint.REST"
       [] k = "minions" -> "minion.REST"
       [] k = "events" -> "event.REST"
       [] k = "bindings" -> "binding.REST"]

(* lines 164-167 / 173-176: make a new map and copy every entry of         *)
(* m.storage into it; the result is the heap and the reference returned.   *)
CopyStorageAliased(h, src) == [heap |-> h, ref |-> src]

CopyStorageDropsBindings(h, src) ==
  [heap |-> Append(h, [k \in (DOMAIN h[src]) \ {"bindings"} |-> h[src][k]]),
   ref |-> Len(h) + 1]

CopyStorage(h, src) ==
  [heap |-> Append(h, [k \in DOMAIN h[src] |-> h[src][k]]),
   ref |-> Len(h) + 1]

(* line 141: go util.Forever(func() { podCache.UpdateAllContainers() }, 30s) *)
NewTask == [pc |-> "call", ran |-> 0]
GoForeverTwice(ts) == Append(Append(ts, NewTask), NewTask)

GoForever(ts) == Append(ts, NewTask)

(* map delete / map assignment on a map value *)
MapDelete(mp, k) == [x \in (DOMAIN mp) \ {k} |-> mp[x]]
MapSet(mp, k, v) == [x \in (DOMAIN mp) \cup {k} |-> IF x = k THEN v ELSE mp[x]]

VARIABLES
  c,               \* the *Config handed to New
  pc,              \* position of the New call
  minionRegistry,  \* m.minionRegistry
  etcdMinions,     \* minion entries in the storage backend
  dropped,         \* indexes of c.Minions whose CreateMinion returned an error
  called,          \* registry constructors makeMinionRegistry has called
  glog,            \* glog.Errorf calls made by makeMinionRegistry
  heap,            \* the map objects
  mStorage,        \* m.storage: a reference into heap, NoRef while nil
  results,         \* the 4-tuples the exporters have returned
  mutations,       \* number of caller writes to returned maps
  tasks,           \* the goroutines running util.Forever
  passesStarted    \* number of UpdateAllContainers calls begun

vars == <<c, pc, minionRegistry, etcdMinions, dropped, called, glog, heap,
          mStorage, results, mutations, tasks, passesStarted>>

regVars == <<minionRegistry, etcdMinions, dropped, called, glog>>
apiVars == <<heap, mStorage, results, mutations>>
taskVars == <<tasks, passesStarted>>

InitWith(configs) ==
  /\ c \in configs
  /\ pc = "New"
  /\ minionRegistry = NilRegistry
  /\ etcdMinions = {}
  /\ dropped = {}
  /\ called = {}
  /\ glog = {}
  /\ heap = <<>>
  /\ mStorage = NoRef
  /\ results = <<>>
  /\ mutations = 0
  /\ tasks = <<>>
  /\ passesStarted = 0

(* Construction over every configuration *)
InitBuild == InitWith(Config)

(* The configurations the serving phase is explored from: the exporters    *)
(* and the refresh task read no field of the Config.                       *)
ServeConfigs ==
  {cfg \in Config : /\ cfg.Minions = <<"n1">>
                    /\ cfg.NodeResources = "res1"
                    /\ cfg.MinionRegexp = "re"}

Init == InitWith(ServeConfigs)

(* New, lines 88-102: makeMinionRegistry and the Master literal *)
NewMakeMinionRegistry ==
  /\ pc = "New"
  /\ \E cloudFails \in BOOLEAN, cacheFails \in BOOLEAN,
        failSet \in SUBSET (1..Len(c.Minions)) :
       LET r == makeMinionRegistry(c, etcdMinions, cloudFails, failSet, cacheFails)
       IN /\ minionRegistry' = r.reg
          /\ etcdMinions' = r.store
          /\ dropped' = r.dropped
          /\ called' = r.called
          /\ glog' = r.glog
  /\ pc' = "init_go"
  /\ UNCHANGED <<c, apiVars, taskVars>>

(* Master.init, lines 140-141: the refresh goroutine is started *)
InitGo ==
  /\ pc = "init_go"
  /\ tasks' = GoForever(tasks)
  /\ pc' = "init_storage"
  /\ UNCHANGED <<c, regVars, apiVars, passesStarted>>

(* Master.init, lines 143-159: m.storage is assigned *)
InitStorage ==
  /\ pc = "init_storage"
  /\ heap' = Append(heap, StorageLiteral)
  /\ mStorage' = Len(heap) + 1
  /\ pc' = "return"
  /\ UNCHANGED <<c, regVars, results, mutations, taskVars>>

(* New, line 104 *)
NewReturn ==
  /\ pc = "return"
  /\ pc' = "done"
  /\ UNCHANGED <<c, regVars, apiVars, taskVars>>

(* Master.API_v1beta1, lines 163-169 *)
API_v1beta1 ==
  /\ pc = "done"
  /\ Len(results) < MaxCalls
  /\ LET r == CopyStorage(heap, mStorage)
     IN /\ heap' = r.heap
        /\ results' = Append(results,
               [version |-> "v1beta1", storage |-> r.ref,
                codec |-> "v1beta1.Codec", prefix |-> "/api/v1beta1",
                linker |-> "latest.SelfLinker"])
  /\ UNCHANGED <<c, pc, regVars, mStorage, mutations, taskVars>>

(* Master.API_v1beta2, lines 172-178 *)
API_v1beta2 ==
  /\ pc = "done"
  /\ Len(results) < MaxCalls
  /\ LET r == CopyStorage(heap, mStorage)
     IN /\ heap' = r.heap
        /\ results' = Append(results,
               [version |-> "v1beta2", storage |-> r.ref,
                codec |-> "v1beta2.Codec", prefix |-> "/api/v1beta1",
                linker |-> "latest.SelfLinker"])
  /\ UNCHANGED <<c, pc, regVars, mStorage, mutations, taskVars>>

(* A caller deletes a key of a map it was returned *)
CallerDelete ==
  /\ mutations < MaxMutations
  /\ \E i \in 1..Len(results), k \in MutKeys :
       /\ k \in DOMAIN heap[results[i].storage]
       /\ heap' = [heap EXCEPT ![results[i].storage] = MapDelete(@, k)]
  /\ mutations' = mutations + 1
  /\ UNCHANGED <<c, pc, regVars, mStorage, results, taskVars>>

(* A caller adds or replaces a key of a map it was returned *)
CallerSet ==
  /\ mutations < MaxMutations
  /\ \E i \in 1..Len(results), k \in MutKeys :
       heap' = [heap EXCEPT ![results[i].storage] = MapSet(@, k, OtherHandler)]
  /\ mutations' = mutations + 1
  /\ UNCHANGED <<c, pc, regVars, mStorage, results, taskVars>>

(* util.Forever: the loop calls f *)
ForeverCall ==
  /\ passesStarted < MaxPasses
  /\ \E t \in 1..Len(tasks) :
       /\ tasks[t].pc = "call"
       /\ tasks' = [tasks EXCEPT ![t] = [pc |-> "running", ran |-> 0]]
  /\ passesStarted' = passesStarted + 1
  /\ UNCHANGED <<c, pc, regVars, apiVars>>

(* util.Forever: f, that is podCache.UpdateAllContainers, returns and the  *)
(* loop goes to time.Sleep(period)                                         *)
ForeverReturn ==
  /\ \E t \in 1..Len(tasks) :
       /\ tasks[t].pc = "running"
       /\ tasks' = [tasks EXCEPT ![t] = [pc |-> "sleep", ran |-> 0]]
  /\ UNCHANGED <<c, pc, regVars, apiVars, passesStarted>>

(* One refresh period of time passes: sleeping loops wake up, passes in    *)
(* progress have run one period longer.                                    *)
Tick ==
  /\ tasks # <<>>
  /\ \A t \in 1..Len(tasks) : tasks[t].pc = "running" => tasks[t].ran < MaxPassTicks
  /\ \E t \in 1..Len(tasks) : tasks[t].pc # "call"
  /\ tasks' = [t \in 1..Len(tasks) |->
                 CASE tasks[t].pc = "running" -> [pc |-> "running", ran |-> tasks[t].ran + 1]
                   [] tasks[t].pc = "sleep" -> [pc |-> "call", ran |-> 0]
                   [] OTHER -> tasks[t]]
  /\ UNCHANGED <<c, pc, regVars, apiVars, passesStarted>>

Next ==
  \/ NewMakeMinionRegistry
  \/ InitGo
  \/ InitStorage
  \/ NewReturn
  \/ API_v1beta1
  \/ API_v1beta2
  \/ CallerDelete
  \/ CallerSet
  \/ ForeverCall
  \/ ForeverReturn
  \/ Tick

Spec == Init /\ [][Next]_vars

(* New alone, from every configuration *)
NextBuild ==
  \/ NewMakeMinionRegistry
  \/ InitGo
  \/ InitStorage
  \/ NewReturn

SpecBuild == InitBuild /\ [][NextBuild]_vars

(* ---------------------------------------------------------------------- *)
(* Properties                                                               *)
(* ---------------------------------------------------------------------- *)

(* C1: in the registry makeMinionRegistry returns, the base (Static or      *)
(* CloudDiscovered) is innermost, a HealthFiltered layer sits directly on   *)
(* the base, a Cached layer is outermost; with MinionCacheTTL > 0,          *)
(* HealthCheckMinions and a cache construction that did not fail the chain  *)
(* is Cached(HealthFiltered(base)) with TTL = MinionCacheTTL.               *)
CachedOutermostHealthBeneath ==
  pc # "New" =>
    /\ Len(minionRegistry) >= 1
    /\ minionRegistry[1].kind \in {"Static", "CloudDiscovered"}
    /\ \A i \in 1..Len(minionRegistry) :
         /\ i > 1 => minionRegistry[i].kind \in {"HealthFiltered", "Cached"}
         /\ minionRegistry[i].kind = "Cached" => i = Len(minionRegistry)
         /\ minionRegistry[i].kind = "HealthFiltered" => i = 2
    /\ (c.MinionCacheTTL > 0 /\ c.HealthCheckMinions /\ "cache" \notin glog) =>
         minionRegistry = <<minionRegistry[1], Layer("HealthFiltered", 0),
                            Layer("Cached", c.MinionCacheTTL)>>

CachedOverHealthBuilt ==
  /\ pc # "New"
  /\ c.MinionCacheTTL > 0
  /\ c.HealthCheckMinions
  /\ "cache" \notin glog
  /\ Len(minionRegistry) = 3

(* C2: when the cloud registry was attempted and failed, the base of the    *)
(* returned chain is the Static registry and every identifier of            *)
(* Config.Minions has been created in the storage backend.                  *)
CloudFailureFallsBackToFullStatic ==
  (pc # "New" /\ "cloud" \in glog) =>
    /\ minionRegistry[1].kind = "Static"
    /\ \A i \in 1..Len(c.Minions) :
         [ID |-> c.Minions[i], NodeResources |-> c.NodeResources] \in etcdMinions

(* C3: after a CreateMinion call of the static path returned an error, New  *)
(* does not return a Master and no handler map is assembled.                *)
CreateFailureAbortsNew ==
  dropped # {} => (pc # "done" /\ mStorage = NoRef)

(* C4: with no cloud handle and an empty discovery pattern, the entries of  *)
(* the node registry are exactly the identifiers of Config.Minions, each    *)
(* with Config.NodeResources.                                               *)
StaticMembershipExact ==
  (pc # "New" /\ c.Cloud = Nil /\ c.MinionRegexp = "") =>
    etcdMinions = {[ID |-> c.Minions[i], NodeResources |-> c.NodeResources] :
                     i \in 1..Len(c.Minions)}

(* C5: when MinionCacheTTL > 0 and the cache construction failed, or when   *)
(* MinionCacheTTL <= 0, the returned chain is the base registry, health     *)
(* filtered iff HealthCheckMinions, without a Cached layer; with            *)
(* MinionCacheTTL <= 0 NewCachingRegistry is not called.                    *)
CacheFailureKeepsChain ==
  pc # "New" =>
    LET base == IF "NewCloudRegistry" \in called /\ "cloud" \notin glog
                THEN Layer("CloudDiscovered", 0) ELSE Layer("Static", 0)
        preCache == IF c.HealthCheckMinions
                    THEN <<base, Layer("HealthFiltered", 0)>>
                    ELSE <<base>>
    IN /\ (c.MinionCacheTTL <= 0 \/ "cache" \in glog) => minionRegistry = preCache
       /\ c.MinionCacheTTL <= 0 => "NewCachingRegistry" \notin called
       /\ "cache" \in glog => c.MinionCacheTTL > 0

CacheConstructionFailed ==
  /\ pc # "New"
  /\ c.MinionCacheTTL > 0
  /\ "cache" \in glog
  /\ c.HealthCheckMinions

(* C6: the returned chain has a HealthFiltered layer iff HealthCheckMinions *)
(* is set, whatever the base: cloud, static, or static after a failed cloud *)
(* attempt.                                                                 *)
HealthLayerIffEnabled ==
  pc # "New" =>
    (c.HealthCheckMinions <=>
       \E i \in 1..Len(minionRegistry) : minionRegistry[i].kind = "HealthFiltered")

HealthFilteredCloudBuilt ==
  /\ pc # "New"
  /\ c.HealthCheckMinions
  /\ Len(minionRegistry) >= 2
  /\ minionRegistry[1].kind = "CloudDiscovered"
  /\ minionRegistry[2].kind = "HealthFiltered"

(* C7: once init has assigned m.storage it has exactly the seven keys pods, *)
(* replicationControllers, services, endpoints, minions, events, bindings,  *)
(* and no later step (exporter call, caller write to a returned map,        *)
(* refresh pass) reassigns m.storage or changes the map it refers to.       *)
StorageKeysFixed ==
  /\ [](pc \in {"return", "done"} => mStorage # NoRef)
  /\ [](mStorage # NoRef =>
          DOMAIN heap[mStorage] =
            {"pods", "replicationControllers", "services", "endpoints",
             "minions", "events", "bindings"})
  /\ [][mStorage # NoRef =>
          (mStorage' = mStorage /\ heap'[mStorage] = heap[mStorage])]_vars

StorageReadAfterUse ==
  /\ pc = "done"
  /\ \E i, j \in 1..Len(results) :
       results[i].version = "v1beta1" /\ results[j].version = "v1beta2"
  /\ mutations >= 1
  /\ passesStarted >= 1

(* C8: every exporter call returns a map object that is neither m.storage   *)
(* nor a map returned before, with the content of m.storage at the time of  *)
(* the call; a caller write changes exactly the one map written, never      *)
(* m.storage, so later calls still return the content built by init.        *)
ReturnedMapsIndependent ==
  /\ [](\A i, j \in 1..Len(results) :
          /\ results[i].storage # mStorage
          /\ i # j => results[i].storage # results[j].storage)
  /\ [][Len(results') > Len(results) =>
          /\ heap'[results'[Len(results')].storage] = heap[mStorage]
          /\ heap'[results'[Len(results')].storage] = StorageLiteral
          /\ \A r \in DOMAIN heap : heap'[r] = heap[r]]_vars
  /\ [][\A r \in DOMAIN heap :
          heap'[r] # heap[r] =>
            /\ r # mStorage
            /\ \E i \in 1..Len(results) : results[i].storage = r
            /\ \A q \in (DOMAIN heap) \ {r} : heap'[q] = heap[q]]_vars

ReturnedMapsDiverged ==
  /\ mutations >= 1
  /\ \E i, j \in 1..Len(results) :
       /\ i < j
       /\ heap[results[i].storage] # heap[results[j].storage]
       /\ heap[results[j].storage] = heap[mStorage]

(* C9: each exporter returns the codec and the root path prefix of its own  *)
(* version: v1beta1 with /api/v1beta1, v1beta2 with /api/v1beta2; the       *)
(* resource kinds and the self-link builder are the same for both.          *)
ExporterReturnsOwnVersion ==
  \A i \in 1..Len(results) :
    /\ results[i].version = "v1beta1" =>
         (results[i].codec = "v1beta1.Codec" /\ results[i].prefix = "/api/v1beta1")
    /\ results[i].version = "v1beta2" =>
         (results[i].codec = "v1beta2.Codec" /\ results[i].prefix = "/api/v1beta2")
    /\ results[i].linker = "latest.SelfLinker"

(* C10: init starts exactly one refresh task; New goes on and returns       *)
(* whatever the task is doing; at no time are two UpdateAllContainers       *)
(* passes in progress, however many periods a pass takes.                   *)
OneRefreshTaskNoOverlap ==
  /\ pc \in {"New", "init_go"} => Len(tasks) = 0
  /\ pc \notin {"New", "init_go"} => Len(tasks) = 1
  /\ Cardinality({t \in 1..Len(tasks) : tasks[t].pc = "running"}) <= 1
  /\ passesStarted > 0 => Len(tasks) >= 1
  /\ pc = "init_storage" => ENABLED InitStorage
  /\ pc = "return" => ENABLED NewReturn

SecondPassWhileInitPending ==
  /\ pc = "init_storage"
  /\ passesStarted >= 2
  /\ \E t \in 1..Len(tasks) : tasks[t].pc = "running" /\ tasks[t].ran >= 1

====
